---------------------------- MODULE Spec2Model ----------------------------
(***************************************************************************)
(* State-machine model of the tokenized real estate ownership canister     *)
(* (src/src/index.ts): the two StableBTreeMaps and the eight express       *)
(* request handlers.  A request runs to completion, so every handler is    *)
(* one action.  What a handler does to a request is a function of the      *)
(* stores and the request: its outcome, the response it sends together     *)
(* with the store it leaves.  The action of a handler installs the store   *)
(* of its outcome.                                                         *)
(*                                                                         *)
(* Strings that the code splits, joins, interpolates or converts to        *)
(* numbers (usernames, share entries, wallet balances, history records)    *)
(* are sequences of one-character strings.  Strings that the code only     *)
(* stores and compares (email, password, address, deedURL, error texts)    *)
(* are TLA+ strings, "" being the empty (falsy) string.                    *)
(* JavaScript numbers are integers here: the model covers integral         *)
(* amounts in the range where IEEE-754 doubles are exact.                  *)
(*                                                                         *)
(* inFlight and raced hold transfer requests that two clients have sent    *)
(* together and the canister has not handled yet; they stay empty except   *)
(* under SpecRacing.                                                       *)
(***************************************************************************)
EXTENDS Integers, Sequences, FiniteSets, TLC

VARIABLES
    usersStorage,                  \* StableBTreeMap<string, User>(0)
    realEstatePropertiesStorage,   \* StableBTreeMap<string, RealEstateProperty>(1)
    nextId,                        \* number of ids uuidv4() has handed out
    now,                           \* ic.time(), as read by getCurrentDate()
    inFlight,                      \* transfer requests sent and not yet handled
    raced                          \* what two clients sent together, if waiting

vars == <<usersStorage, realEstatePropertiesStorage, nextId, now, inFlight, raced>>

\* the requests in flight, which no handler touches
network == <<inFlight, raced>>

---------------------------------------------------------------------------
(* Bounds of the model *)

\* uuidv4() is called at most MaxProps times
MaxProps == 1
\* transfers are explored while the histories hold at most MaxTransfers
\* transfer records in all
MaxTransfers == 2
\* deposits are explored while the balance stays within -MaxBalance..MaxBalance
MaxBalance == 2
\* getCurrentDate() is called at most MaxTime times
MaxTime == 2

---------------------------------------------------------------------------
(* JavaScript strings and numbers *)

Digits == <<"0", "1", "2", "3", "4", "5", "6", "7", "8", "9">>

IsDigit(c) == \E i \in 1..10 : Digits[i] = c

DigitValue(c) == (CHOOSE i \in 1..10 : Digits[i] = c) - 1

RECURSIVE NatToStr(_)
\* decimal digits of a natural number, as String(n) prints them
NatToStr(n) ==
    IF n < 10 THEN <<Digits[n + 1]>>
    ELSE Append(NatToStr(n \div 10), Digits[(n % 10) + 1])

\* `${n}` and n + "" for a number n
NumToStr(n) == IF n < 0 THEN <<"-">> \o NatToStr(-n) ELSE NatToStr(n)

RECURSIVE DigitsToNat(_)
DigitsToNat(s) ==
    IF s = <<>> THEN 0
    ELSE 10 * DigitsToNat(SubSeq(s, 1, Len(s) - 1)) + DigitValue(s[Len(s)])

\* the strings s for which s*1 is not NaN (decimal integers; "" is 0)
IsNumericStr(s) ==
    \/ s = <<>>
    \/ /\ \A i \in 1..Len(s) : IsDigit(s[i])
    \/ /\ Len(s) > 1
       /\ s[1] = "-"
       /\ \A i \in 2..Len(s) : IsDigit(s[i])

\* s*1 for a numeric string s
StrToNum(s) ==
    IF s = <<>> THEN 0
    ELSE IF s[1] = "-" THEN -DigitsToNat(SubSeq(s, 2, Len(s)))
    ELSE DigitsToNat(s)

RECURSIVE SplitLoop(_, _, _, _)
\* s.split(":") from character i on: parts are the pieces found so far and
\* piece is the one being read
SplitLoop(s, i, parts, piece) ==
    IF i > Len(s) THEN Append(parts, piece)
    ELSE IF s[i] = ":" THEN SplitLoop(s, i + 1, Append(parts, piece), <<>>)
    ELSE SplitLoop(s, i + 1, parts, Append(piece, s[i]))

\* s.split(":")
Split(s) == SplitLoop(s, 1, <<>>, <<>>)

RECURSIVE Join(_)
\* parts.join(":")
Join(parts) ==
    IF parts = <<>> THEN <<>>
    ELSE IF Len(parts) = 1 THEN parts[1]
    ELSE Join(SubSeq(parts, 1, Len(parts) - 1)) \o <<":">> \o parts[Len(parts)]

\* let result = data.split(":"); let numShares = result.pop();
\* let name = result.join(":");
ParseEntry(data) ==
    LET result == Split(data)
    IN  [numShares |-> result[Len(result)],
         name |-> Join(SubSeq(result, 1, Len(result) - 1))]

EntryNumShares(data) == ParseEntry(data).numShares

EntryName(data) == ParseEntry(data).name

---------------------------------------------------------------------------
(* Values of a JSON request body field that the code treats as a number *)

Undefined == [t |-> "undefined"]
Num(n) == [t |-> "number", n |-> n]
Str(s) == [t |-> "string", s |-> s]

\* !v
Falsy(v) ==
    \/ v.t = "undefined"
    \/ v.t = "number" /\ v.n = 0
    \/ v.t = "string" /\ v.s = <<>>

\* isNaN(v)
IsNaN(v) ==
    \/ v.t = "undefined"
    \/ v.t = "string" /\ ~IsNumericStr(v.s)

\* v*1, for a v with ~IsNaN(v)
ToNumber(v) == IF v.t = "number" THEN v.n ELSE StrToNum(v.s)

\* `${v}`
TemplateStr(v) == IF v.t = "number" THEN NumToStr(v.n) ELSE v.s

---------------------------------------------------------------------------
(* Request inputs.  A field that is missing or empty is <<>> or "" for a   *)
(* string and Undefined for a number.  The requests of a handler are the   *)
(* well-formed ones over the values below, and one request for each way a  *)
(* field can be missing or malformed.                                      *)

alice == <<"a", "l", "i", "c", "e">>
bob == <<"b", "o", "b">>
\* the username of the README's curl examples
name == <<"n", "a", "m", "e">>

Usernames == {alice, bob, name}
Emails == {"alice@mail.com", "bob@mail.com"}
Passwords == {"name123"}
\* the README creates a property at one address and updates it to another
Addresses == {"123 my street"}
NewAddresses == {"updated address"}
Deeds == {"/url/path/to/title/deed/photo"}
\* properties are created with two shares; a transfer moves one or two
CreateShares == {Num(2)}
Shares == {Num(1), Num(2)}
\* the README's deposit example sends the amount as a string
Amounts == {Num(-1), Num(1), Num(2), Str(<<"1">>)}

\* the :id path parameter; EmptyId stands for an empty one
EmptyId == 0
PropertyIds == 1..MaxProps

RegisterRequests ==
    [username : Usernames, email : Emails, password : Passwords]

DepositRequests ==
    [username : Usernames, amount : Amounts]
        \cup [username : {<<>>}, amount : {Num(1)}]
        \cup [username : {alice}, amount : {Undefined, Num(0), Str(<<"x">>)}]

CreateRequests ==
    [address : Addresses, owner : Usernames, deedURL : Deeds, shares : CreateShares]
        \cup [address : {""}, owner : {alice}, deedURL : Deeds, shares : {Num(1)}]
        \cup [address : Addresses, owner : {<<>>}, deedURL : Deeds, shares : {Num(1)}]
        \cup [address : Addresses, owner : {alice}, deedURL : {""}, shares : {Num(1)}]
        \cup [address : Addresses, owner : {alice}, deedURL : Deeds,
              shares : {Undefined, Num(0), Num(-1), Str(<<"x">>)}]

UpdateRequests ==
    [id : PropertyIds, owner : Usernames, address : NewAddresses, deedURL : Deeds]
        \cup [id : {EmptyId}, owner : {alice}, address : NewAddresses, deedURL : Deeds]
        \cup [id : PropertyIds, owner : {<<>>}, address : NewAddresses, deedURL : Deeds]
        \cup [id : PropertyIds, owner : {alice}, address : {""}, deedURL : Deeds]
        \cup [id : PropertyIds, owner : {alice}, address : NewAddresses, deedURL : {""}]

DeleteRequests ==
    [id : PropertyIds, username : Usernames]
        \cup [id : {EmptyId}, username : {alice}]
        \cup [id : PropertyIds, username : {<<>>}]

TransferRequests ==
    [id : PropertyIds, from : Usernames, to : Usernames, shares : Shares]
        \cup [id : {EmptyId}, from : {alice}, to : {bob}, shares : {Num(1)}]
        \cup [id : PropertyIds, from : {<<>>}, to : {bob}, shares : {Num(1)}]
        \cup [id : PropertyIds, from : {alice}, to : {<<>>}, shares : {Num(1)}]
        \cup [id : PropertyIds, from : {alice}, to : {bob},
              shares : {Undefined, Num(0), Num(-1), Str(<<"x">>)}]

GetRequests == [id : PropertyIds \cup {EmptyId}]

---------------------------------------------------------------------------
(* Responses: the HTTP status and the error text ("" on success) *)

Resp(status, error) == [status |-> status, error |-> error]

Ok == Resp(200, "")

ErrUserExists == "user exists or email is already in use."
ErrDepositAmount == "Deposit amount must be specified and must be a number."
ErrNoUser == "User doesn't exist."
ErrCreateFields == "Address, shares and deed url are required fields and shares must be a positive number greater than 0."
ErrOwnerNotRegistered == "Owner not registered as a user"
ErrIdRequired == "A valid property id is required."
ErrNotFound == "Property with ID=${propertyId} not found"
ErrUpdateFields == "Address, owner and deedURL fields must be provided"
ErrNotOwner == "Property can only be updated by its owner."
ErrNewOwner == "New owner not a registered user"
ErrUsernameRequired == "username field must be provided"
ErrDeleteForbidden == "Only owners of the property can delete it and a property cannot be deleted if it has more than 1 shareholder."
ErrTransferInput == "Invalid input. 'from', 'to' and 'shares' are required fields, and 'shares' must be a positive number"
ErrInsufficientShares == "You do not own ${shares} shares in property ${propertyId}"
ErrToNotRegistered == "${to} does not match any registered users."

---------------------------------------------------------------------------
(* StableBTreeMap: a finite function from keys to values *)

\* "None" in map.get(key)
IsNone(map, key) == key \notin DOMAIN map

\* map.insert(key, value): adds the key or replaces its value
Insert(map, key, value) ==
    [k \in DOMAIN map \cup {key} |-> IF k = key THEN value ELSE map[k]]

\* map.remove(key)
Remove(map, key) == [k \in DOMAIN map \ {key} |-> map[k]]

\* IsRegistered that finds every username
EveryoneRegistered(users, username) == TRUE

\* usersStorage.values().some((user) => user.username === username)
IsRegistered(users, username) ==
    \E k \in DOMAIN users : users[k].username = username

\* usersStorage.values().some((user) => user.email === email)
EmailInUse(users, email) ==
    \E k \in DOMAIN users : users[k].email = email

Init ==
    /\ usersStorage = <<>>
    /\ realEstatePropertiesStorage = <<>>
    /\ nextId = 0
    /\ now = 0
    /\ inFlight = <<>>
    /\ raced = <<>>

---------------------------------------------------------------------------
(* POST /users *)

\* const user: User = {username, email, password, walletTokens: "0"}
NewUser(username, email, password) ==
    [username |-> username, email |-> email, password |-> password,
     walletTokens |-> <<"0">>]

\* RegisterConflict without the email test
RegisterConflictByUsernameOnly(users, username, email) ==
    ~IsNone(users, username)

\* the validation of POST /users: the username is taken or the email is in use
RegisterConflict(users, username, email) ==
    ~IsNone(users, username) \/ EmailInUse(users, email)

RegisterOutcome(users, username, email, password) ==
    IF RegisterConflict(users, username, email)
    THEN [resp |-> Resp(400, ErrUserExists), users |-> users]
    ELSE [resp |-> Ok,
          users |-> Insert(users, username, NewUser(username, email, password))]

Register(username, email, password) ==
    /\ usersStorage' =
           RegisterOutcome(usersStorage, username, email, password).users
    /\ UNCHANGED <<realEstatePropertiesStorage, nextId, now, network>>

---------------------------------------------------------------------------
(* POST /users/deposit *)

\* if(!username || !amount || isNaN(amount))
DepositInvalid(username, amount) ==
    username = <<>> \/ Falsy(amount) \/ IsNaN(amount)

\* DepositedTokens that stores the amount instead of adding it
DepositedTokensOverwritten(walletTokens, amount) ==
    NumToStr(ToNumber(amount))

\* user.walletTokens = (user.walletTokens * 1) + (amount * 1) + ""
DepositedTokens(walletTokens, amount) ==
    NumToStr(StrToNum(walletTokens) + ToNumber(amount))

DepositOutcome(users, username, amount) ==
    IF DepositInvalid(username, amount)
    THEN [resp |-> Resp(404, ErrDepositAmount), users |-> users]
    ELSE IF ~IsNone(users, username)
    THEN [resp |-> Ok,
          users |-> Insert(users, username,
                           [users[username] EXCEPT
                               !.walletTokens = DepositedTokens(@, amount)])]
    ELSE [resp |-> Resp(400, ErrNoUser), users |-> users]

\* the balances the model explores
BalancesInBounds(users) ==
    \A k \in DOMAIN users :
        LET w == StrToNum(users[k].walletTokens)
        IN  -MaxBalance <= w /\ w <= MaxBalance

Deposit(username, amount) ==
    /\ usersStorage' = DepositOutcome(usersStorage, username, amount).users
    /\ BalancesInBounds(usersStorage')
    /\ UNCHANGED <<realEstatePropertiesStorage, nextId, now, network>>

---------------------------------------------------------------------------
(* POST /properties *)

PropertyCreatedBy ==
    <<"P", "r", "o", "p", "e", "r", "t", "y", " ", "c", "r", "e", "a", "t",
      "e", "d", " ", "b", "y", " ">>

\* NewProperty that leaves the share list as the constructor makes it: empty
NewPropertyWithoutShares(id, time, address, owner, deedURL, shares) ==
    [id |-> id,
     address |-> address,
     owner |-> owner,
     tokenizedShares |-> <<>>,
     transactionHistory |-> << PropertyCreatedBy \o owner >>,
     deedURL |-> deedURL,
     createdAt |-> time,
     updatedAt |-> <<>>]

\* new RealEstateProperty(address, owner, deedURL) with the two fields the
\* handler sets afterwards; id is what uuidv4() returns and time what
\* getCurrentDate() returns
NewProperty(id, time, address, owner, deedURL, shares) ==
    [id |-> id,
     address |-> address,
     owner |-> owner,
     tokenizedShares |-> << owner \o <<":">> \o TemplateStr(shares) >>,
     transactionHistory |-> << PropertyCreatedBy \o owner >>,
     deedURL |-> deedURL,
     createdAt |-> time,
     updatedAt |-> <<>>]

\* if (!address || !owner || !deedURL || !shares || isNaN(shares) || shares < 1)
CreateInvalid(address, owner, deedURL, shares) ==
    \/ address = ""
    \/ owner = <<>>
    \/ deedURL = ""
    \/ Falsy(shares)
    \/ IsNaN(shares)
    \/ ToNumber(shares) < 1

CreateOutcome(users, properties, id, time, address, owner, deedURL, shares) ==
    IF CreateInvalid(address, owner, deedURL, shares)
    THEN [resp |-> Resp(400, ErrCreateFields), properties |-> properties]
    ELSE IF IsRegistered(users, owner)
    THEN [resp |-> Ok,
          properties |->
              Insert(properties, id,
                     NewProperty(id, time, address, owner, deedURL, shares))]
    ELSE [resp |-> Resp(400, ErrOwnerNotRegistered), properties |-> properties]

CreateProperty(address, owner, deedURL, shares) ==
    LET outcome == CreateOutcome(usersStorage, realEstatePropertiesStorage,
                                 nextId + 1, now + 1,
                                 address, owner, deedURL, shares)
    IN  /\ realEstatePropertiesStorage' = outcome.properties
        /\ IF outcome.resp = Ok
           THEN /\ nextId < MaxProps
                /\ now < MaxTime
                /\ nextId' = nextId + 1
                /\ now' = now + 1
           ELSE UNCHANGED <<nextId, now>>
        /\ UNCHANGED <<usersStorage, network>>

---------------------------------------------------------------------------
(* GET /properties and GET /properties/:id *)

GetPropertiesOutcome(properties) == [resp |-> Ok, properties |-> properties]

GetProperties ==
    /\ realEstatePropertiesStorage' =
           GetPropertiesOutcome(realEstatePropertiesStorage).properties
    /\ UNCHANGED <<usersStorage, nextId, now, network>>

GetPropertyOutcome(properties, propertyId) ==
    IF propertyId = EmptyId
    THEN [resp |-> Resp(400, ErrIdRequired), properties |-> properties]
    ELSE IF IsNone(properties, propertyId)
    THEN [resp |-> Resp(404, ErrNotFound), properties |-> properties]
    ELSE [resp |-> Ok, properties |-> properties]

GetProperty(propertyId) ==
    /\ realEstatePropertiesStorage' =
           GetPropertyOutcome(realEstatePropertiesStorage, propertyId).properties
    /\ UNCHANGED <<usersStorage, nextId, now, network>>

---------------------------------------------------------------------------
(* PUT /properties/:id *)

\* UpdatedProperty that stamps createdAt as well
UpdatedPropertyRestamped(property, address, deedURL, time) ==
    [property EXCEPT !.address = address, !.deedURL = deedURL,
                     !.updatedAt = <<time>>, !.createdAt = time]

\* { ...property, address, deedURL, updatedAt: getCurrentDate() }
UpdatedProperty(property, address, deedURL, time) ==
    [property EXCEPT !.address = address, !.deedURL = deedURL,
                     !.updatedAt = <<time>>]

\* UpdateRefused without the owner test: any registered user may update
UpdateNeverRefused(property, owner) == FALSE

\* if(property.owner !== owner): the update is refused
UpdateRefused(property, owner) == property.owner # owner

UpdateOutcome(users, properties, time, propertyId, owner, address, deedURL) ==
    IF propertyId = EmptyId
    THEN [resp |-> Resp(400, ErrIdRequired), properties |-> properties]
    ELSE IF owner = <<>> \/ address = "" \/ deedURL = ""
    THEN [resp |-> Resp(400, ErrUpdateFields), properties |-> properties]
    ELSE IF ~IsRegistered(users, owner)
    THEN [resp |-> Resp(400, ErrNewOwner), properties |-> properties]
    ELSE IF IsNone(properties, propertyId)
    THEN [resp |-> Resp(400, ErrNotFound), properties |-> properties]
    ELSE LET property == properties[propertyId]
         IN  IF UpdateRefused(property, owner)
             THEN [resp |-> Resp(400, ErrNotOwner), properties |-> properties]
             ELSE [resp |-> Ok,
                   properties |->
                       Insert(properties, property.id,
                              UpdatedProperty(property, address, deedURL, time))]

UpdateProperty(propertyId, owner, address, deedURL) ==
    LET outcome == UpdateOutcome(usersStorage, realEstatePropertiesStorage,
                                 now + 1, propertyId, owner, address, deedURL)
    IN  /\ realEstatePropertiesStorage' = outcome.properties
        /\ IF outcome.resp = Ok
           THEN now < MaxTime /\ now' = now + 1
           ELSE UNCHANGED now
        /\ UNCHANGED <<usersStorage, nextId, network>>

---------------------------------------------------------------------------
(* DELETE /properties/:id *)

\* DeleteRefused without the owner test
DeleteRefusedByLengthOnly(property, username) ==
    Len(property.tokenizedShares) > 1

\* if(tokenizedShares.length > 1 || owner !== username): the property is put back
DeleteRefused(property, username) ==
    Len(property.tokenizedShares) > 1 \/ property.owner # username

\* DeleteOutcome that does not put a refused property back
DeleteOutcomeWithoutReinsert(properties, propertyId, username) ==
    IF propertyId = EmptyId
    THEN [resp |-> Resp(400, ErrIdRequired), properties |-> properties]
    ELSE IF username = <<>>
    THEN [resp |-> Resp(400, ErrUsernameRequired), properties |-> properties]
    ELSE IF IsNone(properties, propertyId)
    THEN [resp |-> Resp(400, ErrNotFound),
          properties |-> Remove(properties, propertyId)]
    ELSE LET deletedProperty == properties[propertyId]
             removed == Remove(properties, propertyId)
         IN  IF DeleteRefused(deletedProperty, username)
             THEN [resp |-> Resp(400, ErrDeleteForbidden), properties |-> removed]
             ELSE [resp |-> Ok, properties |-> removed]

DeleteOutcome(properties, propertyId, username) ==
    IF propertyId = EmptyId
    THEN [resp |-> Resp(400, ErrIdRequired), properties |-> properties]
    ELSE IF username = <<>>
    THEN [resp |-> Resp(400, ErrUsernameRequired), properties |-> properties]
    ELSE IF IsNone(properties, propertyId)
    THEN [resp |-> Resp(400, ErrNotFound),
          properties |-> Remove(properties, propertyId)]
    ELSE LET deletedProperty == properties[propertyId]
             removed == Remove(properties, propertyId)
         IN  IF DeleteRefused(deletedProperty, username)
             THEN [resp |-> Resp(400, ErrDeleteForbidden),
                   properties |->
                       Insert(removed, deletedProperty.id, deletedProperty)]
             ELSE [resp |-> Ok, properties |-> removed]

DeleteProperty(propertyId, username) ==
    /\ realEstatePropertiesStorage' =
           DeleteOutcome(realEstatePropertiesStorage, propertyId, username).properties
    /\ UNCHANGED <<usersStorage, nextId, now, network>>

---------------------------------------------------------------------------
(* POST /transfer/:id *)

RECURSIVE FromSharesLoop(_, _, _, _)
\* the first forEach, from entry i on, fromShares being what it is so far
FromSharesLoop(tokenizedShares, from, i, fromShares) ==
    IF i > Len(tokenizedShares) THEN fromShares
    ELSE LET entry == ParseEntry(tokenizedShares[i])
         IN  FromSharesLoop(tokenizedShares, from, i + 1,
                            IF entry.name = from THEN Str(entry.numShares)
                            ELSE fromShares)

\* let fromShares = undefined; tokenizedShares.forEach(...)
FromShares(tokenizedShares, from) ==
    FromSharesLoop(tokenizedShares, from, 1, Undefined)

\* InsufficientShares without the comparison: only a missing entry is refused
InsufficientSharesMissingOnly(tokenizedShares, from, shares) ==
    Falsy(FromShares(tokenizedShares, from))

\* if (!fromShares || (fromShares*1) < shares)
InsufficientShares(tokenizedShares, from, shares) ==
    LET fromShares == FromShares(tokenizedShares, from)
    IN  Falsy(fromShares) \/ ToNumber(fromShares) < ToNumber(shares)

\* the literal text that starts a rewritten entry: `name:${...}`
RewrittenPrefix == <<"n", "a", "m", "e", ":">>

\* the body of the second forEach for one entry
TransferEntry(data, from, to, shares) ==
    LET entry == ParseEntry(data)
        numShares == entry.numShares
        entryName == entry.name
    IN  IF entryName = from
        THEN IF numShares = <<>> THEN data
             ELSE RewrittenPrefix \o
                      NumToStr(StrToNum(numShares) - ToNumber(shares))
        ELSE IF entryName = to
        THEN RewrittenPrefix \o
                 NumToStr(StrToNum(IF numShares = <<>> THEN <<"0">> ELSE numShares)
                          + ToNumber(shares))
        ELSE data

\* isToSharesSet after the second forEach
IsToSharesSet(tokenizedShares, from, to) ==
    \E i \in 1..Len(tokenizedShares) :
        LET entryName == EntryName(tokenizedShares[i])
        IN  entryName # from /\ entryName = to

\* TransferredShares that prunes the entries left with no shares
TransferredSharesPruned(tokenizedShares, from, to, shares) ==
    LET rewritten == [i \in 1..Len(tokenizedShares) |->
                         TransferEntry(tokenizedShares[i], from, to, shares)]
        pushed == IF IsToSharesSet(tokenizedShares, from, to) THEN rewritten
                  ELSE Append(rewritten, to \o <<":">> \o TemplateStr(shares))
    IN  SelectSeq(pushed, LAMBDA data : StrToNum(EntryNumShares(data)) # 0)

\* tokenizedShares after the second forEach and the push
TransferredShares(tokenizedShares, from, to, shares) ==
    LET rewritten == [i \in 1..Len(tokenizedShares) |->
                         TransferEntry(tokenizedShares[i], from, to, shares)]
    IN  IF IsToSharesSet(tokenizedShares, from, to) THEN rewritten
        ELSE Append(rewritten, to \o <<":">> \o TemplateStr(shares))

TransferredFromTo ==
    <<" ", "t", "r", "a", "n", "s", "f", "e", "r", "r", "e", "d", " ", "f",
      "r", "o", "m", " ">>

\* `${shares} transferred from ${from} to ${to}`
TransferRecord(from, to, shares) ==
    TemplateStr(shares) \o TransferredFromTo \o from \o <<" ", "t", "o", " ">> \o to

RECURSIVE NewOwnerLoop(_, _, _, _)
\* the third forEach, from entry i on, mostShares and newOwner being what
\* they are so far
NewOwnerLoop(tokenizedShares, i, mostShares, newOwner) ==
    IF i > Len(tokenizedShares) THEN newOwner
    ELSE LET entry == ParseEntry(tokenizedShares[i])
             numShares == StrToNum(entry.numShares)
         IN  IF numShares > mostShares
             THEN NewOwnerLoop(tokenizedShares, i + 1, numShares, entry.name)
             ELSE NewOwnerLoop(tokenizedShares, i + 1, mostShares, newOwner)

RECURSIVE NewOwnerLastWinsLoop(_, _, _, _)
NewOwnerLastWinsLoop(tokenizedShares, i, mostShares, newOwner) ==
    IF i > Len(tokenizedShares) THEN newOwner
    ELSE LET entry == ParseEntry(tokenizedShares[i])
             numShares == StrToNum(entry.numShares)
         IN  IF numShares >= mostShares
             THEN NewOwnerLastWinsLoop(tokenizedShares, i + 1, numShares, entry.name)
             ELSE NewOwnerLastWinsLoop(tokenizedShares, i + 1, mostShares, newOwner)

\* NewOwner with >= for >: on a tie the last entry wins
NewOwnerLastWins(tokenizedShares, owner) ==
    NewOwnerLastWinsLoop(tokenizedShares, 1, -1, owner)

\* let newOwner = property.owner; let mostShares = -1; forEach(...)
NewOwner(tokenizedShares, owner) == NewOwnerLoop(tokenizedShares, 1, -1, owner)

\* TransferredProperty that starts the history anew with the transfer's record
TransferredPropertyHistoryRestarted(property, from, to, shares) ==
    LET tokenizedShares ==
            TransferredShares(property.tokenizedShares, from, to, shares)
    IN  [property EXCEPT
            !.tokenizedShares = tokenizedShares,
            !.transactionHistory = << TransferRecord(from, to, shares) >>,
            !.owner = NewOwner(tokenizedShares, property.owner)]

\* the property the handler writes back
TransferredProperty(property, from, to, shares) ==
    LET tokenizedShares ==
            TransferredShares(property.tokenizedShares, from, to, shares)
    IN  [property EXCEPT
            !.tokenizedShares = tokenizedShares,
            !.transactionHistory = Append(@, TransferRecord(from, to, shares)),
            !.owner = NewOwner(tokenizedShares, property.owner)]

\* if (!from || !to || !shares || isNaN(shares) || shares <= 0)
TransferInvalid(from, to, shares) ==
    \/ from = <<>>
    \/ to = <<>>
    \/ Falsy(shares)
    \/ IsNaN(shares)
    \/ ToNumber(shares) <= 0

TransferOutcome(users, properties, propertyId, from, to, shares) ==
    IF propertyId = EmptyId
    THEN [resp |-> Resp(400, ErrIdRequired), properties |-> properties]
    ELSE IF TransferInvalid(from, to, shares)
    THEN [resp |-> Resp(400, ErrTransferInput), properties |-> properties]
    ELSE IF IsNone(properties, propertyId)
    THEN [resp |-> Resp(400, ErrNotFound), properties |-> properties]
    ELSE LET property == properties[propertyId]
         IN  IF InsufficientShares(property.tokenizedShares, from, shares)
             THEN [resp |-> Resp(400, ErrInsufficientShares),
                   properties |-> properties]
             ELSE IF IsRegistered(users, to)
             THEN [resp |-> Ok,
                   properties |->
                       Insert(properties, property.id,
                              TransferredProperty(property, from, to, shares))]
             ELSE [resp |-> Resp(400, ErrToNotRegistered),
                   properties |-> properties]

RECURSIVE TransferCount(_, _)
\* the number of transfer records in the histories of the stored properties
\* with ids 1..n
TransferCount(properties, n) ==
    IF n = 0 THEN 0
    ELSE TransferCount(properties, n - 1)
             + (IF IsNone(properties, n) THEN 0
                ELSE Len(properties[n].transactionHistory) - 1)

Transfer(propertyId, from, to, shares) ==
    /\ realEstatePropertiesStorage' =
           TransferOutcome(usersStorage, realEstatePropertiesStorage,
                           propertyId, from, to, shares).properties
    /\ TransferCount(realEstatePropertiesStorage', nextId) <= MaxTransfers
    /\ UNCHANGED <<usersStorage, nextId, now, network>>

---------------------------------------------------------------------------
(* The canister *)

\* the requests to /users and /users/deposit
RegistryNext ==
    \/ \E r \in RegisterRequests : Register(r.username, r.email, r.password)
    \/ \E r \in DepositRequests : Deposit(r.username, r.amount)

\* the requests to /users, /properties and /transfer
PropertiesNext ==
    \/ \E r \in RegisterRequests : Register(r.username, r.email, r.password)
    \/ \E r \in CreateRequests :
           CreateProperty(r.address, r.owner, r.deedURL, r.shares)
    \/ GetProperties
    \/ \E r \in GetRequests : GetProperty(r.id)
    \/ \E r \in UpdateRequests :
           UpdateProperty(r.id, r.owner, r.address, r.deedURL)
    \/ \E r \in DeleteRequests : DeleteProperty(r.id, r.username)
    \/ \E r \in TransferRequests : Transfer(r.id, r.from, r.to, r.shares)

Next == RegistryNext \/ PropertiesNext

\* every request the canister serves
Spec == Init /\ [][Next]_vars

\* The wallets and the properties do not interact: Deposit writes only the
\* walletTokens of a user, which no other handler reads, and the handlers of
\* /properties and /transfer read only the usernames of usersStorage.  The
\* claims about the user registry are checked with the requests to /users
\* alone, those about properties without the deposits.
SpecRegistry == Init /\ [][RegistryNext]_vars

SpecProperties == Init /\ [][PropertiesNext]_vars

---------------------------------------------------------------------------
(* Two clients send a transfer request for the same property at the same   *)
(* time.  The canister handles the requests in flight one after the other, *)
(* in either order; a handler is a synchronous callback, with no await     *)
(* between its get and its insert, so handling a request is one step.      *)

\* the two clients
Clients == {1, 2}

\* StoreRead that returns the store as it was when the request was sent
StoreReadAtSend(current, atSend) == atSend

\* the store a handler reads, realEstatePropertiesStorage.get(propertyId):
\* the store as it is when the request is handled, not as it was when the
\* request was sent
StoreRead(current, atSend) == current

\* the store that handling transfer request r leaves, read being the store
\* the handler reads
Served(users, read, r) ==
    TransferOutcome(users, read, r.id, r.from, r.to, r.shares).properties

\* no request is in flight
Quiet == DOMAIN inFlight = {}

\* two clients send r1 and r2, transfers on the same property that the
\* canister would each accept as things stand
SendTogether(r1, r2) ==
    /\ Quiet
    /\ r1.id = r2.id
    /\ TransferCount(realEstatePropertiesStorage, nextId) + 2 <= MaxTransfers
    /\ TransferOutcome(usersStorage, realEstatePropertiesStorage,
                       r1.id, r1.from, r1.to, r1.shares).resp = Ok
    /\ TransferOutcome(usersStorage, realEstatePropertiesStorage,
                       r2.id, r2.from, r2.to, r2.shares).resp = Ok
    /\ inFlight' = <<r1, r2>>
    /\ raced' = << [properties |-> realEstatePropertiesStorage,
                    first |-> r1, second |-> r2] >>
    /\ UNCHANGED <<usersStorage, realEstatePropertiesStorage, nextId, now>>

\* the canister handles the request of client c: POST /transfer/:id, whole
HandleInFlight(c) ==
    /\ c \in DOMAIN inFlight
    /\ realEstatePropertiesStorage' =
           Served(usersStorage,
                  StoreRead(realEstatePropertiesStorage, raced[1].properties),
                  inFlight[c])
    /\ IF DOMAIN inFlight = {c}
       THEN inFlight' = <<>> /\ raced' = <<>>
       ELSE /\ inFlight' = [k \in DOMAIN inFlight \ {c} |-> inFlight[k]]
            /\ UNCHANGED raced
    /\ UNCHANGED <<usersStorage, nextId, now>>

\* the requests to /users, /properties and /transfer, with two transfers
\* sent together now and then, which are then the only requests until both
\* are handled
RacingNext ==
    \/ Quiet /\ PropertiesNext
    \/ \E r1, r2 \in TransferRequests : SendTogether(r1, r2)
    \/ \E c \in Clients : HandleInFlight(c)

SpecRacing == Init /\ [][RacingNext]_vars

---------------------------------------------------------------------------

(* The share list of a property, read the way the handlers read it *)

\* the holder name of entry i
HolderAt(tokenizedShares, i) == EntryName(tokenizedShares[i])

\* the share value of entry i
ValueAt(tokenizedShares, i) == StrToNum(EntryNumShares(tokenizedShares[i]))

RECURSIVE SumFrom(_, _)
SumFrom(tokenizedShares, i) ==
    IF i > Len(tokenizedShares) THEN 0
    ELSE ValueAt(tokenizedShares, i) + SumFrom(tokenizedShares, i + 1)

\* the sum of all share values
SumShares(tokenizedShares) == SumFrom(tokenizedShares, 1)

\* the <<holder, value>> pairs of the share list
Holdings(tokenizedShares) ==
    {<<HolderAt(tokenizedShares, i), ValueAt(tokenizedShares, i)>> :
        i \in 1..Len(tokenizedShares)}

\* the step is a successful transfer for request r
TransferStep(r) ==
    /\ TransferOutcome(usersStorage, realEstatePropertiesStorage,
                       r.id, r.from, r.to, r.shares).resp = Ok
    /\ Transfer(r.id, r.from, r.to, r.shares)

---------------------------------------------------------------------------
(* Claims *)

\* C1: a successful transfer leaves the sum of the share values of the
\* property as it was.
C1_TransferKeepsSum ==
    [][\A r \in TransferRequests :
          TransferStep(r) =>
              SumShares(realEstatePropertiesStorage'[r.id].tokenizedShares)
                  = SumShares(realEstatePropertiesStorage[r.id].tokenizedShares)]_vars

\* C2: a successful transfer of s shares from f to another holder t lowers
\* the entry keyed f by s, raises the entry keyed t by s (a new entry keyed t
\* holding s if there was none), and leaves the other holders' entries alone.
C2_TransferDebitsAndCredits ==
    [][\A r \in TransferRequests :
          (TransferStep(r) /\ r.from # r.to) =>
              LET before == Holdings(
                      realEstatePropertiesStorage[r.id].tokenizedShares)
                  after == Holdings(
                      realEstatePropertiesStorage'[r.id].tokenizedShares)
                  s == ToNumber(r.shares)
              IN  /\ \A e \in before : e[1] = r.from => <<r.from, e[2] - s>> \in after
                  /\ IF \E e \in before : e[1] = r.to
                     THEN \A e \in before :
                              e[1] = r.to => <<r.to, e[2] + s>> \in after
                     ELSE <<r.to, s>> \in after
                  /\ \A e \in before : e[1] \notin {r.from, r.to} => e \in after
                  /\ \A e \in after : e[1] \notin {r.from, r.to} => e \in before]_vars

\* entry i holds the greatest share value, and is the earliest that does
FirstGreatest(tokenizedShares, i) ==
    /\ \A j \in 1..Len(tokenizedShares) :
           ValueAt(tokenizedShares, j) <= ValueAt(tokenizedShares, i)
    /\ \A j \in 1..(i - 1) :
           ValueAt(tokenizedShares, j) < ValueAt(tokenizedShares, i)

\* C3: once a property has had a transfer, its owner is the holder name of
\* the entry with the greatest share value, the earliest such entry on a tie.
C3_OwnerHoldsMost ==
    \A id \in DOMAIN realEstatePropertiesStorage :
        LET property == realEstatePropertiesStorage[id]
        IN  Len(property.transactionHistory) > 1 =>
                \E i \in 1..Len(property.tokenizedShares) :
                    /\ FirstGreatest(property.tokenizedShares, i)
                    /\ property.owner = HolderAt(property.tokenizedShares, i)

\* a transfer has left two entries tied for the greatest value, and the
\* owner is not the creator any more
C3_Witness ==
    \E id \in DOMAIN realEstatePropertiesStorage :
        LET property == realEstatePropertiesStorage[id]
            tokenizedShares == property.tokenizedShares
        IN  /\ Len(property.transactionHistory) > 1
            /\ \E i, j \in 1..Len(tokenizedShares) :
                   /\ i < j
                   /\ FirstGreatest(tokenizedShares, i)
                   /\ ValueAt(tokenizedShares, j) = ValueAt(tokenizedShares, i)
            /\ property.transactionHistory[1] # PropertyCreatedBy \o property.owner

\* C4: no share value is negative.
C4_SharesNonNegative ==
    \A id \in DOMAIN realEstatePropertiesStorage :
        \A i \in 1..Len(realEstatePropertiesStorage[id].tokenizedShares) :
            ValueAt(realEstatePropertiesStorage[id].tokenizedShares, i) >= 0

\* C5: the owner of every stored property is a registered user.
C5_OwnerRegistered ==
    \A id \in DOMAIN realEstatePropertiesStorage :
        realEstatePropertiesStorage[id].owner \in DOMAIN usersStorage

\* from has no entry in the share list
NoEntry(tokenizedShares, from) ==
    \A i \in 1..Len(tokenizedShares) : HolderAt(tokenizedShares, i) # from

\* from holds fewer than n shares: its entry (the last one, should the list
\* hold several under that name) has a value below n
HoldsFewer(tokenizedShares, from, n) ==
    \E i \in 1..Len(tokenizedShares) :
        /\ HolderAt(tokenizedShares, i) = from
        /\ \A j \in (i + 1)..Len(tokenizedShares) :
               HolderAt(tokenizedShares, j) # from
        /\ ValueAt(tokenizedShares, i) < n

\* r is a well-formed transfer request for a stored property whose from has
\* no entry or holds fewer shares than r asks for
ShortTransfer(r) ==
    /\ r.id \in DOMAIN realEstatePropertiesStorage
    /\ ~TransferInvalid(r.from, r.to, r.shares)
    /\ LET tokenizedShares == realEstatePropertiesStorage[r.id].tokenizedShares
       IN  \/ NoEntry(tokenizedShares, r.from)
           \/ HoldsFewer(tokenizedShares, r.from, ToNumber(r.shares))

\* C6: a transfer whose from has no entry in the share list, or holds fewer
\* shares than requested, is answered with the insufficient-shares error and
\* leaves the stored properties as they are.
C6_ShortTransferRefused ==
    \A r \in TransferRequests :
        ShortTransfer(r) =>
            LET outcome == TransferOutcome(usersStorage,
                                           realEstatePropertiesStorage,
                                           r.id, r.from, r.to, r.shares)
            IN  /\ outcome.resp = Resp(400, ErrInsufficientShares)
                /\ outcome.properties = realEstatePropertiesStorage

\* after a transfer, a holder with a positive holding asks to move more than
\* it holds, to a registered user
C6_Witness ==
    \E r \in TransferRequests :
        /\ ShortTransfer(r)
        /\ IsRegistered(usersStorage, r.to)
        /\ LET property == realEstatePropertiesStorage[r.id]
           IN  /\ Len(property.transactionHistory) > 1
               /\ ~NoEntry(property.tokenizedShares, r.from)
               /\ ~HoldsFewer(property.tokenizedShares, r.from, 1)

\* C7: a delete request by username u for a stored property succeeds and
\* removes the property exactly when the share list has one entry and that
\* entry's holder is u; otherwise it is refused and nothing is removed.
C7_DeleteIffSoleHolder ==
    \A r \in DeleteRequests :
        r.id \in DOMAIN realEstatePropertiesStorage =>
            LET tokenizedShares ==
                    realEstatePropertiesStorage[r.id].tokenizedShares
                outcome == DeleteOutcome(realEstatePropertiesStorage,
                                         r.id, r.username)
            IN  IF Len(tokenizedShares) = 1
                       /\ HolderAt(tokenizedShares, 1) = r.username
                THEN /\ outcome.resp = Ok
                     /\ DOMAIN outcome.properties =
                            DOMAIN realEstatePropertiesStorage \ {r.id}
                     /\ \A id \in DOMAIN outcome.properties :
                            outcome.properties[id] = realEstatePropertiesStorage[id]
                ELSE /\ outcome.resp.status = 400
                     /\ outcome.properties = realEstatePropertiesStorage

\* a property was created and its sole holder has deleted it
C7_Witness ==
    /\ nextId > 0
    /\ DOMAIN realEstatePropertiesStorage = {}

\* C8: no two registered users share a username or an email, and a
\* registration whose username is registered or whose email is in use is
\* answered with the user-exists error and leaves the registry as it is.
C8_RegistrationUnique ==
    /\ \A k \in DOMAIN usersStorage : usersStorage[k].username = k
    /\ \A k1, k2 \in DOMAIN usersStorage :
           usersStorage[k1].email = usersStorage[k2].email => k1 = k2
    /\ \A r \in RegisterRequests :
           (\E k \in DOMAIN usersStorage :
                \/ usersStorage[k].username = r.username
                \/ usersStorage[k].email = r.email) =>
               LET outcome == RegisterOutcome(usersStorage, r.username,
                                              r.email, r.password)
               IN  /\ outcome.resp = Resp(400, ErrUserExists)
                   /\ outcome.users = usersStorage

\* two users are registered, so every further registration in the model
\* repeats a username or an email
C8_Witness ==
    /\ Cardinality(DOMAIN usersStorage) = 2
    /\ \E r \in RegisterRequests :
           /\ r.username \notin DOMAIN usersStorage
           /\ \E k \in DOMAIN usersStorage : usersStorage[k].email = r.email

\* the balance of a registered user, as a number
Balance(users, username) == StrToNum(users[username].walletTokens)

C10_BalancesNonNegative ==
    \A k \in DOMAIN usersStorage : Balance(usersStorage, k) >= 0

\* r is an update request with all its fields, for a stored property, whose
\* owner field names a registered user
RegisteredUpdate(r) ==
    /\ r.id \in DOMAIN realEstatePropertiesStorage
    /\ r.owner # <<>>
    /\ r.address # ""
    /\ r.deedURL # ""
    /\ IsRegistered(usersStorage, r.owner)

\* what PUT /properties/:id answers to r in the current state
UpdateOutcomeOf(r) ==
    UpdateOutcome(usersStorage, realEstatePropertiesStorage, now + 1,
                  r.id, r.owner, r.address, r.deedURL)

\* C11, as stated: an update of a stored property with a non-empty address
\* and deedURL succeeds whenever the submitted owner is a registered user,
\* the property's current owner or not.
C11_UpdateByAnyRegistered ==
    \A r \in UpdateRequests :
        RegisteredUpdate(r) => UpdateOutcomeOf(r).resp = Ok

\* C11, amended: such an update succeeds exactly when the submitted owner is
\* the property's current owner; from any other registered user it is
\* answered with the only-its-owner error and nothing is changed.
C11_UpdateByOwnerOnly ==
    \A r \in UpdateRequests :
        RegisteredUpdate(r) =>
            LET property == realEstatePropertiesStorage[r.id]
                outcome == UpdateOutcomeOf(r)
            IN  IF property.owner = r.owner
                THEN /\ outcome.resp = Ok
                     /\ outcome.properties[r.id].address = r.address
                     /\ outcome.properties[r.id].deedURL = r.deedURL
                ELSE /\ outcome.resp = Resp(400, ErrNotOwner)
                     /\ outcome.properties = realEstatePropertiesStorage

\* a property has been updated by its owner, and another registered user
\* now submits an update of it
C11_Witness ==
    \E r \in UpdateRequests :
        /\ RegisteredUpdate(r)
        /\ realEstatePropertiesStorage[r.id].owner # r.owner
        /\ realEstatePropertiesStorage[r.id].updatedAt # <<>>

\* the share counts a create request is tried with: numbers and, as in the
\* README's example, a numeric string
CreateShareCounts == {Num(1), Num(2), Str(<<"2">>)}

\* what POST /properties answers in the current state
CreateOutcomeOf(owner, shares) ==
    CreateOutcome(usersStorage, realEstatePropertiesStorage, nextId + 1,
                  now + 1, "123 my street", owner,
                  "/url/path/to/title/deed/photo", shares)

\* C12: a create with a registered owner and a share count n >= 1 stores a
\* new property owned by that user, with one share entry, keyed by the owner
\* and holding n, and one history entry recording the creation; a create
\* naming an unregistered owner fails and stores nothing.
C12_CreateStoresSoleHolder ==
    \A owner \in Usernames, shares \in CreateShareCounts :
        LET outcome == CreateOutcomeOf(owner, shares)
            id == nextId + 1
        IN  IF IsRegistered(usersStorage, owner)
            THEN /\ outcome.resp = Ok
                 /\ id \notin DOMAIN realEstatePropertiesStorage
                 /\ DOMAIN outcome.properties =
                        DOMAIN realEstatePropertiesStorage \cup {id}
                 /\ \A k \in DOMAIN realEstatePropertiesStorage :
                        outcome.properties[k] = realEstatePropertiesStorage[k]
                 /\ LET property == outcome.properties[id]
                    IN  /\ property.owner = owner
                        /\ Len(property.tokenizedShares) = 1
                        /\ HolderAt(property.tokenizedShares, 1) = owner
                        /\ ValueAt(property.tokenizedShares, 1) = ToNumber(shares)
                        /\ Len(property.transactionHistory) = 1
                        /\ property.transactionHistory[1] =
                               PropertyCreatedBy \o owner
            ELSE /\ outcome.resp = Resp(400, ErrOwnerNotRegistered)
                 /\ outcome.properties = realEstatePropertiesStorage

\* a property has been created and stands as created, while one of the
\* usernames is still unregistered
C12_Witness ==
    /\ \E id \in DOMAIN realEstatePropertiesStorage :
           LET property == realEstatePropertiesStorage[id]
           IN  /\ Len(property.transactionHistory) = 1
               /\ Len(property.tokenizedShares) = 1
               /\ property.updatedAt = <<>>
    /\ \E owner \in Usernames : ~IsRegistered(usersStorage, owner)

\* the property ids that name no stored property
MissingIds == PropertyIds \ DOMAIN realEstatePropertiesStorage

\* the outcome is the NotFound answer and the store is as it was
NotFoundUnchanged(outcome) ==
    /\ outcome.resp.status = 404
    /\ outcome.properties = realEstatePropertiesStorage

\* C13: a get, update, delete or transfer request of a registered user that
\* names a property id not in the store is answered with status 404 and
\* leaves the store as it was.
C13_MissingIdIsNotFound ==
    \A id \in MissingIds :
        /\ NotFoundUnchanged(GetPropertyOutcome(realEstatePropertiesStorage, id))
        /\ \A r \in UpdateRequests :
               (r.id = id /\ r.owner \in DOMAIN usersStorage
                    /\ r.address # "" /\ r.deedURL # "") =>
                   NotFoundUnchanged(UpdateOutcomeOf(r))
        /\ \A r \in DeleteRequests :
               (r.id = id /\ r.username \in DOMAIN usersStorage) =>
                   NotFoundUnchanged(
                       DeleteOutcome(realEstatePropertiesStorage, r.id, r.username))
        /\ \A r \in TransferRequests :
               (r.id = id /\ r.from \in DOMAIN usersStorage
                    /\ ~TransferInvalid(r.from, r.to, r.shares)) =>
                   NotFoundUnchanged(
                       TransferOutcome(usersStorage, realEstatePropertiesStorage,
                                       r.id, r.from, r.to, r.shares))

\* a successful transfer writes back the history with its record appended
TransferAppendsRecord ==
    \A r \in TransferRequests :
        LET outcome == TransferOutcome(usersStorage, realEstatePropertiesStorage,
                                       r.id, r.from, r.to, r.shares)
        IN  outcome.resp = Ok =>
                outcome.properties[r.id].transactionHistory =
                    Append(realEstatePropertiesStorage[r.id].transactionHistory,
                           TransferRecord(r.from, r.to, r.shares))

\* the history of a property that stays stored changes only in a step that
\* is a successful transfer on it
HistoryChangedByTransferOnly ==
    \A id \in DOMAIN realEstatePropertiesStorage
                \cap DOMAIN realEstatePropertiesStorage' :
        realEstatePropertiesStorage'[id].transactionHistory
                # realEstatePropertiesStorage[id].transactionHistory =>
            \E r \in TransferRequests : r.id = id /\ TransferStep(r)

\* C14: while a property is stored its transaction history only grows at the
\* end: a successful transfer appends exactly its one record, and every
\* other request leaves the history as it was.
C14_HistoryAppendOnly ==
    /\ []TransferAppendsRecord
    /\ [][HistoryChangedByTransferOnly]_vars

\* a property has been created, transferred twice and updated
C14_Witness ==
    \E id \in DOMAIN realEstatePropertiesStorage :
        LET property == realEstatePropertiesStorage[id]
        IN  /\ Len(property.transactionHistory) = 3
            /\ property.updatedAt # <<>>

\* after differs from before in address, deedURL and updatedAt at most
SameButUpdatedFields(before, after) ==
    after = [before EXCEPT !.address = after.address,
                           !.deedURL = after.deedURL,
                           !.updatedAt = after.updatedAt]

\* a successful update writes back the property with the submitted address
\* and deedURL and a new updatedAt, and nothing else changed in the store
UpdateWritesThreeFields ==
    \A r \in UpdateRequests :
        LET outcome == UpdateOutcomeOf(r)
        IN  outcome.resp = Ok =>
                /\ DOMAIN outcome.properties = DOMAIN realEstatePropertiesStorage
                /\ \A id \in DOMAIN realEstatePropertiesStorage \ {r.id} :
                       outcome.properties[id] = realEstatePropertiesStorage[id]
                /\ SameButUpdatedFields(realEstatePropertiesStorage[r.id],
                                        outcome.properties[r.id])
                /\ outcome.properties[r.id].address = r.address
                /\ outcome.properties[r.id].deedURL = r.deedURL
                /\ outcome.properties[r.id].updatedAt = <<now + 1>>

\* a step keeps the createdAt of every property that stays stored, and a
\* step that stamps updatedAt changes nothing but the three fields of that
\* property
UpdateFrame ==
    \A id \in DOMAIN realEstatePropertiesStorage
                \cap DOMAIN realEstatePropertiesStorage' :
        LET before == realEstatePropertiesStorage[id]
            after == realEstatePropertiesStorage'[id]
        IN  /\ after.createdAt = before.createdAt
            /\ after.updatedAt # before.updatedAt =>
                   /\ SameButUpdatedFields(before, after)
                   /\ realEstatePropertiesStorage' =
                          [realEstatePropertiesStorage EXCEPT ![id] = after]
                   /\ usersStorage' = usersStorage
                   /\ \E r \in UpdateRequests :
                          /\ r.id = id
                          /\ UpdateOutcomeOf(r).resp = Ok
                          /\ UpdateProperty(r.id, r.owner, r.address, r.deedURL)

\* C15: a successful update changes the property's address, deedURL and
\* updatedAt only, leaving its id, owner, tokenizedShares, transactionHistory
\* and createdAt, every other property and every user as they were; no
\* request changes the createdAt of a stored property.
C15_UpdateFrame ==
    /\ []UpdateWritesThreeFields
    /\ [][UpdateFrame]_vars

\* a property that has had a transfer has been updated, with two users
\* registered
C15_Witness ==
    /\ Cardinality(DOMAIN usersStorage) >= 2
    /\ \E id \in DOMAIN realEstatePropertiesStorage :
           LET property == realEstatePropertiesStorage[id]
           IN  /\ property.updatedAt # <<>>
               /\ property.address = "updated address"
               /\ Len(property.transactionHistory) > 1
               /\ Len(property.tokenizedShares) > 1

\* r is a well-formed transfer request for a stored property whose from
\* holds at least the shares asked for, to a username that is not registered
TransferToStranger(r) ==
    /\ r.id \in DOMAIN realEstatePropertiesStorage
    /\ ~TransferInvalid(r.from, r.to, r.shares)
    /\ r.to \notin DOMAIN usersStorage
    /\ LET tokenizedShares == realEstatePropertiesStorage[r.id].tokenizedShares
       IN  /\ ~NoEntry(tokenizedShares, r.from)
           /\ ~HoldsFewer(tokenizedShares, r.from, ToNumber(r.shares))

\* C16: a transfer whose from holds at least the requested shares but whose
\* to is not a registered username is rejected and leaves the stored
\* properties as they were.
C16_StrangerTransferRefused ==
    \A r \in TransferRequests :
        TransferToStranger(r) =>
            LET outcome == TransferOutcome(usersStorage,
                                           realEstatePropertiesStorage,
                                           r.id, r.from, r.to, r.shares)
            IN  /\ outcome.resp = Resp(400, ErrToNotRegistered)
                /\ outcome.properties = realEstatePropertiesStorage

\* after a transfer, a holder asks to move shares it holds to a username
\* that is not registered
C16_Witness ==
    \E r \in TransferRequests :
        /\ TransferToStranger(r)
        /\ Len(realEstatePropertiesStorage[r.id].transactionHistory) > 1

\* C17: no share list holds two entries with the same holder name.
C17_HoldersDistinct ==
    \A id \in DOMAIN realEstatePropertiesStorage :
        LET tokenizedShares == realEstatePropertiesStorage[id].tokenizedShares
        IN  \A i, j \in 1..Len(tokenizedShares) :
                HolderAt(tokenizedShares, i) = HolderAt(tokenizedShares, j)
                    => i = j

\* a property that has had a transfer holds at least two share entries, and
\* every delete request on it is refused and leaves it stored
TransferredStaysStored ==
    \A id \in DOMAIN realEstatePropertiesStorage :
        LET property == realEstatePropertiesStorage[id]
        IN  Len(property.transactionHistory) > 1 =>
                /\ Len(property.tokenizedShares) >= 2
                /\ \A r \in DeleteRequests :
                       r.id = id =>
                           LET outcome == DeleteOutcome(
                                   realEstatePropertiesStorage, r.id, r.username)
                           IN  /\ outcome.resp.status = 400
                               /\ outcome.properties = realEstatePropertiesStorage

\* no step shortens the share list of a property that stays stored, and no
\* step removes a property that has had a transfer
EntriesKept ==
    \A id \in DOMAIN realEstatePropertiesStorage :
        /\ id \in DOMAIN realEstatePropertiesStorage' =>
               Len(realEstatePropertiesStorage'[id].tokenizedShares)
                   >= Len(realEstatePropertiesStorage[id].tokenizedShares)
        /\ Len(realEstatePropertiesStorage[id].transactionHistory) > 1 =>
               id \in DOMAIN realEstatePropertiesStorage'

\* C18: the number of entries of a share list never decreases, it is at
\* least 2 after a successful transfer, and once a property has had a
\* successful transfer no delete request on it succeeds.
C18_EntriesNeverRemoved ==
    /\ []TransferredStaysStored
    /\ [][EntriesKept]_vars

\* a transfer has left a holder with no shares, still listed, and the owner
\* of the property is among the users who may ask for its deletion
C18_Witness ==
    \E id \in DOMAIN realEstatePropertiesStorage :
        LET property == realEstatePropertiesStorage[id]
        IN  /\ Len(property.transactionHistory) > 1
            /\ \E i \in 1..Len(property.tokenizedShares) :
                   ValueAt(property.tokenizedShares, i) = 0
            /\ \E r \in DeleteRequests :
                   r.id = id /\ r.username = property.owner

\* r is a delete request for a stored property by a user who is not its
\* owner, or for a property with more than one share entry
ForbiddenDelete(r) ==
    /\ r.id \in DOMAIN realEstatePropertiesStorage
    /\ r.username # <<>>
    /\ LET property == realEstatePropertiesStorage[r.id]
       IN  \/ property.owner # r.username
           \/ Len(property.tokenizedShares) > 1

\* C19: a delete request refused because the caller is not the owner or the
\* property has more than one share entry leaves the property stored under
\* its id with every field as it was: the store after the request is the
\* store before it.
C19_RefusedDeleteRestores ==
    \A r \in DeleteRequests :
        ForbiddenDelete(r) =>
            LET outcome == DeleteOutcome(realEstatePropertiesStorage,
                                         r.id, r.username)
            IN  /\ outcome.resp = Resp(400, ErrDeleteForbidden)
                /\ r.id \in DOMAIN outcome.properties
                /\ outcome.properties[r.id].id = r.id
                /\ outcome.properties = realEstatePropertiesStorage

\* the owner asks to delete a property that has been updated and, after a
\* transfer, has several share entries
C19_Witness ==
    \E r \in DeleteRequests :
        /\ ForbiddenDelete(r)
        /\ LET property == realEstatePropertiesStorage[r.id]
           IN  /\ property.owner = r.username
               /\ Len(property.tokenizedShares) > 1
               /\ property.updatedAt # <<>>

\* the step handles the last of two transfer requests sent together, and
\* leaves the store that handling the two one after the other, in one order
\* or the other, leaves
LastHandledSerially ==
    (~Quiet /\ Quiet') =>
        LET sent == raced[1]
        IN  realEstatePropertiesStorage' \in
                {Served(usersStorage,
                        Served(usersStorage, sent.properties, sent.first),
                        sent.second),
                 Served(usersStorage,
                        Served(usersStorage, sent.properties, sent.second),
                        sent.first)}

===========================================================================
